---- MODULE Spec2Model ----
(***************************************************************************)
(* Model of pytorch_to_returnn:                                            *)
(*   - torch/nn/modules/rnn.py: RNNBase / LSTM construction, the lowering  *)
(*     of a recurrent module to a RETURNN layer dict, and the forward      *)
(*     argument checks;                                                    *)
(*   - converter/converter.py: Converter.run() and its four stages.        *)
(***************************************************************************)
EXTENDS Integers, Sequences, FiniteSets, TLC

VARIABLES
  module,      \* <<>> before construction, <<m>> once RNNBase.__init__ returned
  ctor,        \* outcome of the constructor call
  warnings,    \* warnings emitted by warnings.warn, in order
  call,        \* the last method call on the module: its arguments and outcome
  self,        \* the Converter object (its attributes)
  pc,          \* position of Converter.run()
  locals,      \* local variables of the stage being executed
  naming,      \* the Naming sessions currently entered (with-blocks that are open)
  tfsession,   \* the tf sessions currently entered
  acquired,    \* every Naming session that was entered so far
  files,       \* the checkpoint paths parameters were saved to
  produced,    \* the arrays the stages computed (out_ref_np of A, out_wrapped_np of B)
  stdout       \* the stage banners and ">>>> Looks good!" lines printed so far

vars ==
  <<module, ctor, warnings, call, self, pc, locals, naming, tfsession, acquired, files,
    produced, stdout>>

rnnVars == <<module, ctor, warnings, call>>
convVars == <<self, pc, locals, naming, tfsession, acquired, files, produced, stdout>>

----------------------------------------------------------------------------
(* Bounds *)

MaxSize == 2      \* input_size, hidden_size range over 1..MaxSize
MaxLayers == 3    \* num_layers ranges over 1..MaxLayers
MaxDim == 2       \* tensor dimensions range over 1..MaxDim
MaxVal == 1       \* small array elements range over 0..MaxVal

----------------------------------------------------------------------------
(* Python values *)

None == <<>>
Some(x) == <<x>>
Ok(v) == [status |-> "ok", value |-> v]
Raise(e) == [status |-> "error", error |-> e]

----------------------------------------------------------------------------
(* rnn.py: RNNBase.__init__ *)

Modes == {"LSTM", "GRU", "RNN_TANH", "RNN_RELU"}

\* dropout arguments: numbers in tenths, and the two bools
DropoutArgs ==
  [kind : {"num"}, tenths : {-1, 0, 5, 10, 11}] \cup [kind : {"bool"}, tenths : {0, 10}]

CtorArgs ==
  [cls : {"RNNBase"}, mode : Modes \cup {"FOO"},
   input_size : 1..MaxSize, hidden_size : 1..MaxSize, num_layers : 1..MaxLayers,
   bias : BOOLEAN, batch_first : BOOLEAN, dropout : DropoutArgs, bidirectional : BOOLEAN]
  \cup
  [cls : {"LSTM"}, mode : {"LSTM"},
   input_size : 1..MaxSize, hidden_size : 1..MaxSize, num_layers : 1..MaxLayers,
   bias : BOOLEAN, batch_first : BOOLEAN, dropout : DropoutArgs, bidirectional : BOOLEAN]

num_directions(bidirectional) == IF bidirectional THEN 2 ELSE 1

DropoutValidBelowOne(d) == d.kind = "num" /\ 0 <= d.tenths /\ d.tenths < 10

DropoutValid(d) == d.kind = "num" /\ 0 <= d.tenths /\ d.tenths <= 10

DropoutWarns(d, num_layers) == d.tenths > 0 /\ num_layers = 1

gate_size(mode, hidden_size) ==
  CASE mode = "LSTM" -> 4 * hidden_size
    [] mode = "GRU" -> 3 * hidden_size
    [] mode = "RNN_TANH" -> hidden_size
    [] mode = "RNN_RELU" -> hidden_size

ParamName(kind, layer, direction) ==
  kind \o "_l" \o ToString(layer) \o (IF direction = 1 THEN "_reverse" ELSE "")

param_names_with_bias(bias, layer, direction) ==
  <<ParamName("weight_ih", layer, direction), ParamName("weight_hh", layer, direction),
    ParamName("bias_ih", layer, direction), ParamName("bias_hh", layer, direction)>>

param_names(bias, layer, direction) ==
  <<ParamName("weight_ih", layer, direction), ParamName("weight_hh", layer, direction)>>
  \o (IF bias
      THEN <<ParamName("bias_ih", layer, direction), ParamName("bias_hh", layer, direction)>>
      ELSE <<>>)

layer_input_size_first(a, layer) == a.input_size

layer_input_size(a, layer) ==
  IF layer = 0 THEN a.input_size ELSE a.hidden_size * num_directions(a.bidirectional)

layer_params(a, layer) ==
  LET g == gate_size(a.mode, a.hidden_size)
  IN  << <<g, layer_input_size(a, layer)>>, <<g, a.hidden_size>>, <<g>>, <<g>> >>

\* the (layer, direction) pairs in the order of the two nested loops
LayerDirs(a) ==
  LET nd == num_directions(a.bidirectional)
  IN  [k \in 1..(a.num_layers * nd) |-> <<(k - 1) \div nd, (k - 1) % nd>>]

all_weights_of(a) ==
  LET ld == LayerDirs(a)
  IN  [k \in DOMAIN ld |-> param_names(a.bias, ld[k][1], ld[k][2])]

params_of(a) ==
  LET ld == LayerDirs(a)
      names == UNION {{param_names(a.bias, ld[k][1], ld[k][2])[j] :
                         j \in 1..Len(param_names(a.bias, ld[k][1], ld[k][2]))} :
                      k \in DOMAIN ld}
      Slot(n) == CHOOSE kj \in (DOMAIN ld) \X (1..4) :
                   /\ kj[2] <= Len(param_names(a.bias, ld[kj[1]][1], ld[kj[1]][2]))
                   /\ param_names(a.bias, ld[kj[1]][1], ld[kj[1]][2])[kj[2]] = n
  IN  [n \in names |-> layer_params(a, ld[Slot(n)[1]][1])[Slot(n)[2]]]

RNNBase_init(a) ==
  IF ~DropoutValid(a.dropout) THEN Raise("ValueError: dropout")
  ELSE IF a.mode \notin Modes THEN Raise("ValueError: mode")
  ELSE Ok([cls |-> a.cls, mode |-> a.mode, input_size |-> a.input_size,
           hidden_size |-> a.hidden_size, num_layers |-> a.num_layers, bias |-> a.bias,
           batch_first |-> a.batch_first, dropout |-> a.dropout.tenths,
           bidirectional |-> a.bidirectional,
           all_weights |-> all_weights_of(a), params |-> params_of(a)])

Construct(Args) ==
  /\ module = None
  /\ ctor.status = "none"
  /\ \E a \in Args :
       LET r == RNNBase_init(a) IN
       /\ ctor' = [status |-> r.status, args |-> a]
       /\ warnings' = IF DropoutValid(a.dropout) /\ DropoutWarns(a.dropout, a.num_layers)
                      THEN Append(warnings, "dropout") ELSE warnings
       /\ module' = IF r.status = "ok" THEN Some(r.value) ELSE None
  /\ UNCHANGED <<call, convVars>>

\* the all_weights property: the parameters the names of _all_weights refer to
all_weights(m) ==
  [k \in DOMAIN m.all_weights |->
     [j \in DOMAIN m.all_weights[k] |-> m.params[m.all_weights[k][j]]]]

\* the states __setstate__ is given: without 'all_weights', with the names of the
\* pickled module, or with the parameter lists older pickles hold
SetStateArgs(m) ==
  {[has |-> FALSE],
   [has |-> TRUE, kind |-> "names", value |-> m.all_weights],
   [has |-> TRUE, kind |-> "params", value |-> all_weights(m)]}

RNNBase_setstate(m, d) ==
  LET is_str == IF d.has THEN d.kind = "names" ELSE TRUE
      current == IF d.has THEN d.value ELSE m.all_weights
      ld == LayerDirs(m)
      weights(k) == <<ParamName("weight_ih", ld[k][1], ld[k][2]),
                      ParamName("weight_hh", ld[k][1], ld[k][2]),
                      ParamName("bias_ih", ld[k][1], ld[k][2]),
                      ParamName("bias_hh", ld[k][1], ld[k][2])>>
  IN  IF is_str THEN [m EXCEPT !.all_weights = current]
      ELSE [m EXCEPT !.all_weights =
              [k \in DOMAIN ld |-> IF m.bias THEN weights(k) ELSE SubSeq(weights(k), 1, 2)]]

SetState ==
  /\ module # None
  /\ call.op = "none"
  /\ \E d \in SetStateArgs(module[1]) :
       /\ module' = Some(RNNBase_setstate(module[1], d))
       /\ call' = [op |-> "__setstate__", d |-> d]
  /\ UNCHANGED <<ctor, warnings, convVars>>

----------------------------------------------------------------------------
(* rnn.py: create_returnn_layer_dict *)

\* traced tensors handed to the lowering, and the layer that produced each
LowerTensors == {"t_in", "t_prev", "t_state"}
HxArgs == {None} \cup {Some(t) : t \in {"t_state", "t_prev"}}

get_input_layer_name(t) ==
  CASE t = "t_in" -> "data"
    [] t = "t_prev" -> "conv1"
    [] t = "t_state" -> "h0"

RNNBase_create_returnn_layer_dict(m, input, hx) ==
  IF m.num_layers # 1 THEN Raise("AssertionError")
  ELSE Ok([class |-> "rec", unit |-> m.mode, from |-> get_input_layer_name(input),
           n_out |-> m.hidden_size])

LayerName(i) == "layer" \o ToString(i)

SubLayerFromData(i) == "data"

SubLayerFrom(i) == IF i = 0 THEN "data" ELSE LayerName(i - 1)

LSTM_subnetwork(m) ==
  LET names == {LayerName(i) : i \in 0..(m.num_layers - 1)}
      Index(k) == CHOOSE i \in 0..(m.num_layers - 1) : LayerName(i) = k
  IN  [k \in names \cup {"output"} |->
         IF k \in names
         THEN [class |-> "rec", unit |-> "nativelstm2", from |-> SubLayerFrom(Index(k))]
         ELSE [class |-> "copy", from |-> LayerName(m.num_layers - 1)]]

LSTM_single_layer(m, input, hx) ==
  LET d == [class |-> "rec", unit |-> "nativelstm2", from |-> get_input_layer_name(input)]
  IN  IF hx # None
      THEN [k \in DOMAIN d \cup {"initial_state"} |->
              IF k = "initial_state" THEN get_input_layer_name(hx[1]) ELSE d[k]]
      ELSE d

LSTM_create_ignoring_hx(m, input, hx) ==
  IF m.bidirectional THEN Raise("AssertionError")
  ELSE IF m.num_layers > 1
  THEN Ok([class |-> "subnetwork", from |-> get_input_layer_name(input),
           subnetwork |-> LSTM_subnetwork(m)])
  ELSE Ok(LSTM_single_layer(m, input, hx))

LSTM_create_returnn_layer_dict(m, input, hx) ==
  IF m.bidirectional THEN Raise("AssertionError")
  ELSE IF m.num_layers > 1
  THEN IF hx # None THEN Raise("AssertionError")
       ELSE Ok([class |-> "subnetwork", from |-> get_input_layer_name(input),
                subnetwork |-> LSTM_subnetwork(m)])
  ELSE Ok(LSTM_single_layer(m, input, hx))

\* method resolution: LSTM overrides RNNBase.create_returnn_layer_dict
create_returnn_layer_dict(m, input, hx) ==
  IF m.cls = "LSTM" THEN LSTM_create_returnn_layer_dict(m, input, hx)
  ELSE RNNBase_create_returnn_layer_dict(m, input, hx)

Lower ==
  /\ module # None
  /\ call.op = "none"
  /\ \E input \in LowerTensors, hx \in HxArgs :
       call' = [op |-> "create_returnn_layer_dict", input |-> input, hx |-> hx,
                result |-> create_returnn_layer_dict(module[1], input, hx)]
  /\ UNCHANGED <<module, ctor, warnings, convVars>>

----------------------------------------------------------------------------
(* rnn.py: check_forward_args.  A tensor is its shape. *)

Shapes(rank) == [1..rank -> 1..MaxDim]
InputShapes == Shapes(2) \cup Shapes(3)
HiddenShapes == Shapes(3)
BatchSizesArgs == {None} \cup {Some(<<b>>) : b \in 1..MaxDim}

check_input(m, input, batch_sizes) ==
  LET expected_input_dim == IF batch_sizes # None THEN 2 ELSE 3
  IN  IF Len(input) # expected_input_dim
      THEN Raise([kind |-> "input_dim", expected |-> expected_input_dim, got |-> Len(input)])
      ELSE IF m.input_size # input[Len(input)]
      THEN Raise([kind |-> "input_size", expected |-> m.input_size, got |-> input[Len(input)]])
      ELSE Ok(None)

get_expected_hidden_size(m, input, batch_sizes) ==
  LET mini_batch == IF batch_sizes # None THEN batch_sizes[1][1]
                    ELSE IF m.batch_first THEN input[1] ELSE input[2]
  IN  <<m.num_layers * num_directions(m.bidirectional), mini_batch, m.hidden_size>>

check_hidden_size_skip(hx, expected_hidden_size, msg) == Ok(None)

check_hidden_size(hx, expected_hidden_size, msg) ==
  IF hx # expected_hidden_size
  THEN Raise([kind |-> msg, expected |-> expected_hidden_size, got |-> hx])
  ELSE Ok(None)

LSTM_check_forward_args(m, input, hidden, batch_sizes) ==
  LET r0 == check_input(m, input, batch_sizes) IN
  IF r0.status = "error" THEN r0
  ELSE LET expected_hidden_size == get_expected_hidden_size(m, input, batch_sizes)
           r1 == check_hidden_size(hidden[1], expected_hidden_size, "hidden[0]")
       IN  IF r1.status = "error" THEN r1
           ELSE check_hidden_size(hidden[2], expected_hidden_size, "hidden[1]")

CheckForwardArgs ==
  /\ module # None
  /\ module[1].cls = "LSTM"
  /\ call.op = "none"
  /\ \E input \in InputShapes, h \in HiddenShapes, c \in HiddenShapes,
        batch_sizes \in BatchSizesArgs :
       call' = [op |-> "check_forward_args", input |-> input, hidden |-> <<h, c>>,
                batch_sizes |-> batch_sizes,
                result |-> LSTM_check_forward_args(module[1], input, <<h, c>>, batch_sizes)]
  /\ UNCHANGED <<module, ctor, warnings, convVars>>

\* constructor arguments of the modules whose forward arguments are checked
CheckCtorArgs ==
  {a \in CtorArgs : /\ a.cls = "LSTM" /\ a.bias /\ a.num_layers <= 2
                    /\ a.dropout = [kind |-> "num", tenths |-> 0]}

----------------------------------------------------------------------------
(* converter.py: numpy arrays.  An array is its shape and its elements;     *)
(* elements are integers in units of 1e-4.                                  *)

Atol == 1                \* atol=1e-4
RtolDen == 10000000      \* numpy's default rtol=1e-7 is 1 / RtolDen

ArrayShapes == {<<1, 2>>, <<2, 1>>}
\* small elements, and two large ones that differ by less than rtol
Elements == (0..MaxVal) \cup {RtolDen, RtolDen + 1}
Indices(shape) == (1..shape[1]) \X (1..shape[2])
Arrays == UNION {[shape : {sh}, data : [Indices(sh) -> Elements]] : sh \in ArrayShapes}
AxisMaps == {<<1, 2>>, <<2, 1>>}

\* ndarray.transpose(*axes): axis i of the result is axis axes[i] of a
transpose(a, axes) ==
  LET sh == <<a.shape[axes[1]], a.shape[axes[2]]>>
      Src(idx) == [k \in 1..2 |-> idx[CHOOSE i \in 1..2 : axes[i] = k]]
  IN  [shape |-> sh, data |-> [idx \in Indices(sh) |-> a.data[Src(idx)]]]

Abs(x) == IF x < 0 THEN -x ELSE x

\* numpy.testing.assert_allclose(actual, desired, rtol=rtol_num/RtolDen, atol=atol)
allclose(actual, desired, rtol_num, atol) ==
  /\ actual.shape = desired.shape
  /\ \A idx \in Indices(actual.shape) :
       Abs(actual.data[idx] - desired.data[idx])
         <= atol + (rtol_num * Abs(desired.data[idx])) \div RtolDen

\* what a call of the user's model function, or of the backend, can do
Outcomes == {Ok(a) : a \in Arrays} \cup {Raise("Exception")}

----------------------------------------------------------------------------
(* converter.py: Converter.__init__ *)

ExportPaths == {None, Some(""), Some("out/model")}

Flags ==
  [use_non_wrapped_reference : BOOLEAN, verify_with_torch : BOOLEAN,
   verify_individual_model_io : BOOLEAN, import_torch_params : BOOLEAN,
   export_tf_checkpoint_save_path : ExportPaths,
   verify_returnn_standalone_model : BOOLEAN]

Converter_init(f) ==
  [use_non_wrapped_reference |-> f.use_non_wrapped_reference,
   verify_with_torch |-> f.verify_with_torch,
   verify_individual_model_io |-> f.verify_individual_model_io,
   import_torch_params |-> f.import_torch_params,
   export_tf_checkpoint_save_path |-> f.export_tf_checkpoint_save_path,
   tf_checkpoint_save_path |-> None,
   verify_returnn_standalone_model |-> f.verify_returnn_standalone_model,
   out_ref_np |-> None, torch_namespace |-> None, out_returnn_np |-> None,
   returnn_net_dict |-> None]

NoLocals == [stage |-> "none"]

\* Python truthiness of an Optional[str]
Truthy(p) == p # None /\ p[1] # ""

----------------------------------------------------------------------------
(* Naming.make_instance(...) as a context manager *)

NamingEnter(active, s) == active \cup {s}
NamingExit(active, s) == active \ {s}

NamingLeakOnRaise(active, s) == active

\* a with-block whose body raised: __exit__ runs before the exception propagates
NamingAfterRaise(active, s) == NamingExit(active, s)

----------------------------------------------------------------------------
(* converter.py: Converter.run *)

StageAEnabled(c) == c.use_non_wrapped_reference
StageBEnabled(c) ==
  c.verify_with_torch \/ c.verify_individual_model_io \/ c.import_torch_params
StageCOnlyWithTorch(c) == c.verify_with_torch
StageCEnabled(c) == TRUE
StageDEnabled(c) == c.verify_returnn_standalone_model

Abort ==
  /\ pc' = "aborted"
  /\ locals' = NoLocals

\* run(), line 84, and _run_reference
RunReference ==
  /\ pc = "run"
  /\ IF StageAEnabled(self)
     THEN /\ stdout' = Append(stdout, "A")
          /\ \E r \in Outcomes :
               IF r.status = "error"
               THEN Abort /\ UNCHANGED <<self, produced>>
               ELSE /\ self' = [self EXCEPT !.out_ref_np = Some(r.value)]
                    /\ produced' = [produced EXCEPT !.A = Some(r.value)]
                    /\ pc' = "after_A"
                    /\ UNCHANGED locals
     ELSE /\ pc' = "after_A"
          /\ UNCHANGED <<self, locals, stdout, produced>>
  /\ UNCHANGED <<naming, tfsession, acquired, files, rnnVars>>

\* run(), line 86, and _run_traced_orig_torch up to the entry of its Naming session
TracedEnter ==
  /\ pc = "after_A"
  /\ IF StageBEnabled(self)
     THEN /\ stdout' = Append(stdout, "B")
          /\ naming' = NamingEnter(naming, "B")
          /\ acquired' = acquired \cup {"B"}
          /\ pc' = "B_body"
     ELSE /\ pc' = "after_B"
          /\ UNCHANGED <<stdout, naming, acquired>>
  /\ UNCHANGED <<self, locals, tfsession, files, produced, rnnVars>>

\* the body of the Naming session of _run_traced_orig_torch, and its exit
TracedBody ==
  /\ pc = "B_body"
  /\ \E r \in Outcomes :
       IF r.status = "error"
       THEN /\ naming' = NamingAfterRaise(naming, "B")
            /\ Abort
            /\ UNCHANGED <<self, produced>>
       ELSE /\ self' = [self EXCEPT !.torch_namespace = Some("B")]
            /\ locals' = [stage |-> "B", out_wrapped_np |-> r.value]
            /\ produced' = [produced EXCEPT !.B = Some(r.value)]
            /\ naming' = NamingExit(naming, "B")
            /\ pc' = "B_compare"
  /\ UNCHANGED <<tfsession, acquired, files, stdout, rnnVars>>

RefAlwaysFromB(ref, out_wrapped_np) == Some(out_wrapped_np)

\* the reference after Stage B (lines 137-142), when Stage B does not abort
RefAfterTraced(ref, out_wrapped_np) == IF ref # None THEN ref ELSE Some(out_wrapped_np)

\* _run_traced_orig_torch, lines 137-143
TracedCompare ==
  /\ pc = "B_compare"
  /\ IF self.out_ref_np # None
     THEN IF /\ self.out_ref_np[1].shape = locals.out_wrapped_np.shape
             /\ allclose(self.out_ref_np[1], locals.out_wrapped_np, 1, 0)
          THEN /\ stdout' = Append(stdout, "Looks good!")
               /\ self' = [self EXCEPT !.out_ref_np =
                                         RefAfterTraced(@, locals.out_wrapped_np)]
               /\ pc' = "after_B"
               /\ locals' = NoLocals
          ELSE Abort /\ UNCHANGED <<self, stdout>>
     ELSE /\ self' = [self EXCEPT !.out_ref_np = RefAfterTraced(@, locals.out_wrapped_np)]
          /\ pc' = "after_B"
          /\ locals' = NoLocals
          /\ UNCHANGED stdout
  /\ UNCHANGED <<naming, tfsession, acquired, files, produced, rnnVars>>

\* run(), line 88, and _run_torch_returnn_drop_in up to the entry of its Naming session
DropInEnter ==
  /\ pc = "after_B"
  /\ IF StageCEnabled(self)
     THEN /\ stdout' = Append(stdout, "C")
          /\ tfsession' = tfsession \cup {"C"}
          /\ naming' = NamingEnter(naming, "C")
          /\ acquired' = acquired \cup {"C"}
          /\ pc' = "C_body"
     ELSE /\ pc' = "after_C"
          /\ UNCHANGED <<stdout, tfsession, naming, acquired>>
  /\ UNCHANGED <<self, locals, files, produced, rnnVars>>

\* the body of the Naming session of _run_torch_returnn_drop_in (lines 153-171), and its exit
DropInBody ==
  /\ pc = "C_body"
  /\ \E raised \in BOOLEAN, axes \in AxisMaps :
       IF raised
       THEN /\ naming' = NamingAfterRaise(naming, "C")
            /\ tfsession' = tfsession \ {"C"}
            /\ Abort
            /\ UNCHANGED self
       ELSE /\ self' = [self EXCEPT !.returnn_net_dict = Some("net")]
            /\ locals' = [stage |-> "C", returnn_axis_to_torch_axis |-> axes]
            /\ naming' = NamingExit(naming, "C")
            /\ pc' = "C_run"
            /\ UNCHANGED tfsession
  /\ UNCHANGED <<acquired, files, produced, stdout, rnnVars>>

DropInShapeOnly(ref, y_torch) == ref.shape = y_torch.shape

\* line 185: numpy.testing.assert_allclose(self._out_ref_np, y_torch, atol=1e-4, rtol=0)
DropInAgrees(ref, y_torch) == allclose(ref, y_torch, 0, Atol)

\* _run_torch_returnn_drop_in, lines 173-186
DropInRun ==
  /\ pc = "C_run"
  /\ \E r \in Outcomes :
       IF r.status = "error"
       THEN /\ tfsession' = tfsession \ {"C"}
            /\ Abort
            /\ UNCHANGED <<self, stdout>>
       ELSE LET y_torch == transpose(r.value, locals.returnn_axis_to_torch_axis) IN
            /\ self' = [self EXCEPT !.out_returnn_np = Some(r.value)]
            /\ IF self.out_ref_np # None
               THEN IF DropInAgrees(self.out_ref_np[1], y_torch)
                    THEN /\ stdout' = Append(stdout, "Looks good!")
                         /\ locals' = [locals EXCEPT !.stage = "C_verified"]
                         /\ pc' = "C_export"
                         /\ UNCHANGED tfsession
                    ELSE /\ tfsession' = tfsession \ {"C"}
                         /\ Abort
                         /\ UNCHANGED stdout
               ELSE /\ pc' = "C_export"
                    /\ UNCHANGED <<locals, tfsession, stdout>>
  /\ UNCHANGED <<naming, acquired, files, produced, rnnVars>>

\* lines 191-195: the path the checkpoint is written to
checkpoint_path(c) ==
  IF Truthy(c.export_tf_checkpoint_save_path)
  THEN c.export_tf_checkpoint_save_path
  ELSE Some("tmp-returnn-tf-checkpoint/model")

ExportOnlyIfPath(c) == Truthy(c.export_tf_checkpoint_save_path)

\* line 188: whether Stage C saves a checkpoint
ExportWanted(c) ==
  Truthy(c.export_tf_checkpoint_save_path) \/ c.verify_returnn_standalone_model

\* _run_torch_returnn_drop_in, lines 188-199, and the exit of the tf session
DropInExport ==
  /\ pc = "C_export"
  /\ IF ExportWanted(self)
     THEN /\ self' = [self EXCEPT !.tf_checkpoint_save_path = checkpoint_path(self)]
          /\ \E saved \in BOOLEAN :
               IF saved
               THEN /\ files' = files \cup {checkpoint_path(self)[1]}
                    /\ pc' = "after_C"
                    /\ UNCHANGED locals
               ELSE Abort /\ UNCHANGED files
     ELSE /\ pc' = "after_C"
          /\ UNCHANGED <<self, files, locals>>
  /\ tfsession' = tfsession \ {"C"}
  /\ UNCHANGED <<naming, acquired, produced, stdout, rnnVars>>

\* run(), line 89, and _run_returnn_standalone up to the entry of its tf session
StandaloneEnter ==
  /\ pc = "after_C"
  /\ IF StageDEnabled(self)
     THEN /\ stdout' = Append(stdout, "D")
          /\ tfsession' = tfsession \cup {"D"}
          /\ pc' = "D_body"
     ELSE /\ pc' = "done"
          /\ UNCHANGED <<stdout, tfsession>>
  /\ UNCHANGED <<self, locals, naming, acquired, files, produced, rnnVars>>

\* line 212: load_params_from_file needs the checkpoint Stage C wrote
CheckpointLoadable(c, fs) ==
  /\ c.returnn_net_dict # None
  /\ c.tf_checkpoint_save_path # None
  /\ c.tf_checkpoint_save_path[1] \in fs

\* _run_returnn_standalone, lines 204-225, and the exit of the tf session
StandaloneBody ==
  /\ pc = "D_body"
  /\ \E r \in Outcomes :
       IF r.status = "error" \/ ~CheckpointLoadable(self, files)
       THEN Abort /\ UNCHANGED stdout
       ELSE IF allclose(self.out_returnn_np[1], r.value, 0, Atol)
            THEN /\ stdout' = Append(stdout, "Looks good!")
                 /\ pc' = "done"
                 /\ UNCHANGED locals
            ELSE Abort /\ UNCHANGED stdout
  /\ tfsession' = tfsession \ {"D"}
  /\ UNCHANGED <<self, naming, acquired, files, produced, rnnVars>>

----------------------------------------------------------------------------
(* Specifications *)

RNNInit ==
  /\ module = None
  /\ ctor = [status |-> "none"]
  /\ warnings = <<>>
  /\ call = [op |-> "none"]

ConverterStart ==
  /\ pc = "run"
  /\ locals = NoLocals
  /\ naming = {}
  /\ tfsession = {}
  /\ acquired = {}
  /\ files = {}
  /\ produced = [A |-> None, B |-> None]
  /\ stdout = <<>>

\* the defaults of Converter.__init__
DefaultFlags ==
  [use_non_wrapped_reference |-> TRUE, verify_with_torch |-> TRUE,
   verify_individual_model_io |-> TRUE, import_torch_params |-> TRUE,
   export_tf_checkpoint_save_path |-> None, verify_returnn_standalone_model |-> TRUE]

\* a Converter constructed with any flags, about to run()
Init ==
  /\ RNNInit
  /\ ConverterStart
  /\ self \in {Converter_init(f) : f \in Flags}

Next ==
  \/ RunReference
  \/ TracedEnter
  \/ TracedBody
  \/ TracedCompare
  \/ DropInEnter
  \/ DropInBody
  \/ DropInRun
  \/ DropInExport
  \/ StandaloneEnter
  \/ StandaloneBody

Spec == Init /\ [][Next]_vars

\* a recurrent module is constructed and lowered
InitRNN ==
  /\ RNNInit
  /\ ConverterStart
  /\ self = Converter_init(DefaultFlags)

NextRNN ==
  \/ Construct(CtorArgs)
  \/ Lower
  \/ SetState

SpecRNN == InitRNN /\ [][NextRNN]_vars

\* an LSTM is constructed and its forward arguments are checked
NextCheck ==
  \/ Construct(CheckCtorArgs)
  \/ CheckForwardArgs

SpecCheck == InitRNN /\ [][NextCheck]_vars

----------------------------------------------------------------------------
(* Properties of the lowering, checked under SpecRNN *)

Lowered == call.op = "create_returnn_layer_dict"

\* C1: a module with num_layers = 1 and bidirectional = false lowers to one node of
\* class "rec" that has an n_out field equal to hidden_size.
C1_SingleLayerDeclaresWidth ==
  (Lowered /\ module[1].num_layers = 1 /\ ~module[1].bidirectional)
    => /\ call.result.status = "ok"
       /\ call.result.value.class = "rec"
       /\ "n_out" \in DOMAIN call.result.value
       /\ call.result.value.n_out = module[1].hidden_size

\* C2: lowering a module constructed with bidirectional = true always fails and
\* returns no layer dict.
C2_BidirectionalRejected ==
  (Lowered /\ module[1].bidirectional) => call.result.status = "error"

ChainedSubnetwork(d, n) ==
  /\ d.class = "subnetwork"
  /\ DOMAIN d.subnetwork = {LayerName(i) : i \in 0..(n - 1)} \cup {"output"}
  /\ \A i \in 0..(n - 1) :
       /\ d.subnetwork[LayerName(i)].class = "rec"
       /\ d.subnetwork[LayerName(i)].from = (IF i = 0 THEN "data" ELSE LayerName(i - 1))
  /\ d.subnetwork["output"].class = "copy"
  /\ d.subnetwork["output"].from = LayerName(n - 1)

\* C3: a unidirectional module with num_layers = n > 1 either is not supported
\* (lowering fails: any RNNBase mode, or an explicit initial state) or lowers to a
\* "subnetwork" node whose net dict is exactly layer0..layer(n-1), layer0 reading
\* "data" and layer i reading layer(i-1), plus "output", a "copy" of layer(n-1);
\* an LSTM without initial state is supported.
C3_MultiLayerChain ==
  (Lowered /\ ~module[1].bidirectional /\ module[1].num_layers > 1)
    => /\ call.result.status = "ok"
            => ChainedSubnetwork(call.result.value, module[1].num_layers)
       /\ (module[1].cls = "LSTM" /\ call.hx = None) => call.result.status = "ok"

C3_Witness ==
  /\ Lowered
  /\ ~module[1].bidirectional
  /\ module[1].num_layers = 3
  /\ call.result.status = "ok"
  /\ call.result.value.subnetwork["layer2"].from = "layer1"

\* C6: lowering a unidirectional module with num_layers > 1 and an explicit initial
\* state fails and returns no layer dict.
C6_MultiLayerInitialStateRejected ==
  (Lowered /\ ~module[1].bidirectional /\ module[1].num_layers > 1 /\ call.hx # None)
    => call.result.status = "error"

C6_Witness ==
  /\ Lowered
  /\ module[1].cls = "LSTM"
  /\ ~module[1].bidirectional
  /\ module[1].num_layers = 2
  /\ call.hx = Some("t_state")
  /\ call.result.status = "error"

\* C7: the node a single-layer unidirectional module lowers to reads the input node
\* in "from", and has an "initial_state" reference exactly when hx was supplied.
C7_SingleLayerConsumesInputAndState ==
  (Lowered /\ module[1].num_layers = 1 /\ ~module[1].bidirectional)
    => /\ call.result.status = "ok"
       /\ call.result.value.from = get_input_layer_name(call.input)
       /\ ("initial_state" \in DOMAIN call.result.value) <=> (call.hx # None)
       /\ call.hx # None
            => call.result.value.initial_state = get_input_layer_name(call.hx[1])

----------------------------------------------------------------------------
(* Properties of LSTM.check_forward_args, checked under SpecCheck *)

Checked == call.op = "check_forward_args"

InputAccepted ==
  /\ Len(call.input) = (IF call.batch_sizes # None THEN 2 ELSE 3)
  /\ call.input[Len(call.input)] = module[1].input_size

\* (num_layers * num_directions, batch, hidden_size)
ExpectedHiddenShape ==
  << module[1].num_layers * (IF module[1].bidirectional THEN 2 ELSE 1),
     IF call.batch_sizes # None THEN call.batch_sizes[1][1]
     ELSE IF module[1].batch_first THEN call.input[1] ELSE call.input[2],
     module[1].hidden_size >>

AcceptsOnlyValid ==
  call.result.status = "ok"
    => /\ InputAccepted
       /\ call.hidden[1] = ExpectedHiddenShape
       /\ call.hidden[2] = ExpectedHiddenShape

NamesHiddenShapes ==
  /\ call.result.error.kind \in {"hidden[0]", "hidden[1]"}
  /\ call.result.error.expected = ExpectedHiddenShape
  /\ call.result.error.got =
       (IF call.result.error.kind = "hidden[0]" THEN call.hidden[1] ELSE call.hidden[2])
  /\ call.result.error.got # call.result.error.expected

\* C10 as stated: the check accepts only a valid input with hidden and cell of the
\* expected shape, and every pair of differing shapes is rejected with an error that
\* names the expected and the actual shape.
C10_Original ==
  Checked
    => /\ AcceptsOnlyValid
       /\ call.hidden[1] # call.hidden[2]
            => (call.result.status = "error" /\ NamesHiddenShapes)

\* C10 amended: the check accepts only a valid input with hidden and cell of the
\* expected shape; every pair of differing shapes is rejected; the error names the
\* expected and the actual hidden shape when the input passes check_input, and is
\* check_input's error (expected and actual rank or feature size) otherwise.
C10_Amended ==
  Checked
    => /\ AcceptsOnlyValid
       /\ call.hidden[1] # call.hidden[2]
            => /\ call.result.status = "error"
               /\ InputAccepted => NamesHiddenShapes
               /\ ~InputAccepted
                    => /\ call.result.error.kind \in {"input_dim", "input_size"}
                       /\ call.result.error.expected # call.result.error.got

C10_Witness ==
  /\ Checked
  /\ InputAccepted
  /\ call.hidden[1] = ExpectedHiddenShape
  /\ call.hidden[2] # call.hidden[1]
  /\ call.result.status = "error"
  /\ call.result.error.kind = "hidden[1]"

----------------------------------------------------------------------------
(* Properties of Converter.run(), checked under Spec *)

Printed(line) == \E i \in 1..Len(stdout) : stdout[i] = line

\* the stage's banner is directly followed by ">>>> Looks good!"
ComparedIn(stage) ==
  \E i \in 1..(Len(stdout) - 1) : stdout[i] = stage /\ stdout[i + 1] = "Looks good!"

\* the Stage C output, in torch axis order, is within atol of the reference
DropInOutputAgrees ==
  /\ self.out_ref_np # None
  /\ self.out_returnn_np # None
  /\ ComparedIn("C")
  /\ LET y_torch == transpose(self.out_returnn_np[1], locals.returnn_axis_to_torch_axis)
         ref == self.out_ref_np[1]
     IN  /\ ref.shape = y_torch.shape
         /\ \A idx \in Indices(ref.shape) : Abs(ref.data[idx] - y_torch.data[idx]) <= Atol

\* C4 as stated: for every setting of the flags, run() returns normally only if the
\* Stage C output was compared against a reference output and agreed with it.
C4_Original == pc = "done" => DropInOutputAgrees

\* C4 amended: run() returns normally only if every comparison that was made
\* agreed; the Stage C output is compared against the reference, and agrees with
\* it, whenever Stage A or Stage B ran.  With both switched off there is no
\* reference and the Stage C output is not compared.
C4_Amended ==
  pc = "done"
    => /\ (produced.A # None \/ produced.B # None) => DropInOutputAgrees
       /\ (produced.A # None /\ produced.B # None)
            => (ComparedIn("B") /\ allclose(produced.A[1], produced.B[1], 1, 0))
       /\ (produced.A = None /\ produced.B = None)
            => (self.out_ref_np = None /\ ~ComparedIn("C"))

C4_Witness ==
  /\ pc = "done"
  /\ produced.A # None
  /\ DropInOutputAgrees
  /\ locals.returnn_axis_to_torch_axis = <<2, 1>>
  /\ transpose(self.out_returnn_np[1], <<2, 1>>).data # self.out_ref_np[1].data

\* C5: once Stage B has finished, the reference is Stage B's output when Stage A was
\* skipped; when Stage A ran, the reference is and stays Stage A's output.
C5_ReferenceSource ==
  /\ produced.A # None => self.out_ref_np = produced.A
  /\ (produced.A = None /\ pc \in {"after_B", "C_body", "C_run", "C_export", "after_C",
                                  "D_body", "done"})
       => self.out_ref_np = produced.B

C5_Witness ==
  /\ pc = "C_run"
  /\ produced.A = None
  /\ produced.B # None
  /\ self.out_ref_np = produced.B

StageEnabled(stage, c) ==
  CASE stage = "A" -> StageAEnabled(c)
    [] stage = "B" -> StageBEnabled(c)
    [] stage = "C" -> StageCEnabled(c)
    [] stage = "D" -> StageDEnabled(c)

\* C8 as stated: for each of the four stages there is a setting of the flags under
\* which run() does not execute that stage.
C8_Original ==
  pc = "run"
    => \A stage \in {"A", "B", "C", "D"} :
         \E f \in Flags : ~StageEnabled(stage, Converter_init(f))

\* C8 amended: Stages A, B and D are each switched off by their flags (a finished
\* run executed A iff use_non_wrapped_reference, B iff one of verify_with_torch,
\* verify_individual_model_io, import_torch_params, D iff
\* verify_returnn_standalone_model); Stage C has no switch and every finished run
\* executed it.
C8_Amended ==
  pc = "done"
    => /\ Printed("A") <=> self.use_non_wrapped_reference
       /\ Printed("B") <=> (self.verify_with_torch \/ self.verify_individual_model_io
                              \/ self.import_torch_params)
       /\ Printed("C")
       /\ Printed("D") <=> self.verify_returnn_standalone_model

C8_Witness ==
  /\ pc = "done"
  /\ stdout = <<"C">>

\* C9: at most one Naming session is entered at any point of run(), and when run()
\* has ended, normally or by an error, every session that was entered has been left.
C9_OneSessionAlwaysReleased ==
  /\ Cardinality(naming) <= 1
  /\ naming \subseteq acquired
  /\ pc \in {"done", "aborted"} => naming = {}

C9_Witness ==
  /\ pc = "aborted"
  /\ acquired = {"B", "C"}
  /\ self.returnn_net_dict = None
  /\ naming = {}

----------------------------------------------------------------------------
(* Properties of RNNBase.__init__, checked under SpecRNN *)

Constructed == ctor.status # "none"

DropoutOutsideUnitInterval == ctor.args.dropout.tenths < 0 \/ ctor.args.dropout.tenths > 10

DropoutAdvisory ==
  /\ 0 < ctor.args.dropout.tenths
  /\ ctor.args.dropout.tenths <= 10
  /\ ctor.args.num_layers = 1

ExpectedParamNames(layer, direction, bias) ==
  LET tail == "_l" \o ToString(layer) \o (IF direction = 1 THEN "_reverse" ELSE "")
  IN  {"weight_ih" \o tail, "weight_hh" \o tail}
        \cup (IF bias THEN {"bias_ih" \o tail, "bias_hh" \o tail} ELSE {})

\* C12: a constructed module holds, for every layer and direction, exactly the 4
\* parameters weight_ih, weight_hh, bias_ih, bias_hh when bias is enabled and exactly
\* the 2 weights when it is not, and _all_weights has num_layers * num_directions
\* entries of that length, each naming the parameters of its layer and direction.
C12_ParameterCount ==
  module # None
    => LET m == module[1]
           nd == IF m.bidirectional THEN 2 ELSE 1
           per == IF m.bias THEN 4 ELSE 2
       IN  /\ DOMAIN m.params =
                UNION {ExpectedParamNames(l, d, m.bias) :
                         l \in 0..(m.num_layers - 1), d \in 0..(nd - 1)}
           /\ \A l \in 0..(m.num_layers - 1), d \in 0..(nd - 1) :
                Cardinality(ExpectedParamNames(l, d, TRUE) \cap DOMAIN m.params) = per
           /\ Len(m.all_weights) = m.num_layers * nd
           /\ \A l \in 0..(m.num_layers - 1), d \in 0..(nd - 1) :
                LET entry == m.all_weights[l * nd + d + 1]
                IN  /\ Len(entry) = per
                    /\ {entry[j] : j \in 1..Len(entry)} = ExpectedParamNames(l, d, m.bias)
           /\ \A k \in 1..Len(m.all_weights) : Len(all_weights(m)[k]) = per

C12_Witness ==
  /\ module # None
  /\ ~module[1].bias
  /\ module[1].bidirectional
  /\ module[1].num_layers = 2
  /\ call.op = "__setstate__"
  /\ call.d.has
  /\ call.d.kind = "params"
  /\ module[1].all_weights[4] = <<"weight_ih_l1_reverse", "weight_hh_l1_reverse">>

GateMultiplier(mode) ==
  CASE mode = "LSTM" -> 4
    [] mode = "GRU" -> 3
    [] mode = "RNN_TANH" -> 1
    [] mode = "RNN_RELU" -> 1

\* C13: the gate size is 4, 3, 1, 1 times hidden_size for LSTM, GRU, RNN_TANH,
\* RNN_RELU; the parameters of every layer and direction have the shapes
\* (gate_size, layer_input_size), (gate_size, hidden_size), (gate_size,), (gate_size,),
\* with layer_input_size = input_size for layer 0 and hidden_size * num_directions
\* for later layers; construction with any other mode string fails.
C13_GateSizesAndShapes ==
  Constructed
    => /\ ctor.args.mode \notin {"LSTM", "GRU", "RNN_TANH", "RNN_RELU"}
            => (ctor.status = "error" /\ module = None)
       /\ module # None
            => LET m == module[1]
                   nd == IF m.bidirectional THEN 2 ELSE 1
                   g == GateMultiplier(m.mode) * m.hidden_size
               IN  \A l \in 0..(m.num_layers - 1), d \in 0..(nd - 1) :
                     LET tail == "_l" \o ToString(l) \o (IF d = 1 THEN "_reverse" ELSE "")
                         lin == IF l = 0 THEN m.input_size ELSE m.hidden_size * nd
                     IN  /\ m.params["weight_ih" \o tail] = <<g, lin>>
                         /\ m.params["weight_hh" \o tail] = <<g, m.hidden_size>>
                         /\ m.bias => /\ m.params["bias_ih" \o tail] = <<g>>
                                      /\ m.params["bias_hh" \o tail] = <<g>>

C13_Witness ==
  /\ module # None
  /\ module[1].mode = "GRU"
  /\ module[1].bidirectional
  /\ module[1].input_size = 1
  /\ module[1].hidden_size = 2
  /\ module[1].num_layers = 2
  /\ module[1].bias
  /\ module[1].params["weight_ih_l1_reverse"] = <<6, 4>>
  /\ module[1].params["bias_hh_l1_reverse"] = <<6>>

----------------------------------------------------------------------------
(* Order of the stages of Converter.run(), checked under Spec *)

IsBanner(line) == line \in {"A", "B", "C", "D"}
Banners == SelectSeq(stdout, IsBanner)

StageRank(stage) ==
  CASE stage = "A" -> 1 [] stage = "B" -> 2 [] stage = "C" -> 3 [] stage = "D" -> 4

\* the stage run() is inside of; Stage A has no intermediate point
CurrentStage ==
  CASE pc \in {"B_body", "B_compare"} -> "B"
    [] pc \in {"C_body", "C_run", "C_export"} -> "C"
    [] pc = "D_body" -> "D"
    [] OTHER -> "none"

EnabledStages ==
  (IF self.use_non_wrapped_reference THEN <<"A">> ELSE <<>>)
  \o (IF self.verify_with_torch \/ self.verify_individual_model_io
         \/ self.import_torch_params THEN <<"B">> ELSE <<>>)
  \o <<"C">>
  \o (IF self.verify_returnn_standalone_model THEN <<"D">> ELSE <<>>)

StagesInOrder ==
  /\ \A i, j \in 1..Len(Banners) : i < j => StageRank(Banners[i]) < StageRank(Banners[j])
  /\ pc = "done" => Banners = EnabledStages
  /\ CurrentStage # "none"
       => /\ Banners[Len(Banners)] = CurrentStage
          /\ tfsession \subseteq {CurrentStage}
          /\ naming \subseteq {CurrentStage}
  /\ CurrentStage = "none" => (tfsession = {} /\ naming = {})

StandaloneHasCheckpoint ==
  Printed("D")
    => /\ Printed("C")
       /\ pc \in {"D_body", "done", "aborted"}
       /\ self.returnn_net_dict # None
       /\ self.tf_checkpoint_save_path # None
       /\ self.tf_checkpoint_save_path[1] # ""
       /\ self.tf_checkpoint_save_path =
            (IF self.export_tf_checkpoint_save_path # None
                /\ self.export_tf_checkpoint_save_path[1] # ""
             THEN self.export_tf_checkpoint_save_path
             ELSE Some("tmp-returnn-tf-checkpoint/model"))
       /\ self.tf_checkpoint_save_path[1] \in files

\* C14: the enabled stages execute in the order A, B, C, D, each one finished (its
\* sessions left) before the next starts, and whenever Stage D executes, Stage C has
\* completed in the same run and has set the net dict and a non-empty checkpoint
\* path (the caller's non-empty path if given, else a generated temporary one) to
\* which the parameters were saved.
C14_SequentialStages == StagesInOrder /\ StandaloneHasCheckpoint

C14_Witness ==
  /\ pc = "done"
  /\ stdout = <<"A", "B", "Looks good!", "C", "Looks good!", "D", "Looks good!">>
  /\ self.export_tf_checkpoint_save_path = Some("")
  /\ self.tf_checkpoint_save_path = Some("tmp-returnn-tf-checkpoint/model")

====
